---- MODULE Spec2Model ----
(***************************************************************************)
(* Accuracy-aware compression training loop of nncf:                       *)
(*   AdaptiveCompressionTrainingLoop  (common/accuracy_aware_training/     *)
(*                                     training_loop.py)                   *)
(*   TFAccuracyAwareTrainingRunner    (beta/nncf/tensorflow/               *)
(*                                     accuracy_aware_training/runner.py)  *)
(*                                                                         *)
(* Numbers.  Compression rates are integers in units of 1/RateScale, so    *)
(* that the sampled rates of the interpolation (linspace over [0,1]), 0.05 *)
(* and 0.95 are all exact.  Metrics and accuracy budgets are integers.     *)
(* A Python Optional is a sequence of length 0 (None) or 1.                *)
(***************************************************************************)
EXTENDS Integers, Sequences, FiniteSets, TLC

VARIABLES
    pc,       \* position inside AdaptiveCompressionTrainingLoop.run
    cfg,      \* the accuracy-aware configuration and the model's attributes
    runner,   \* fields of the TFAccuracyAwareTrainingRunner
    ctrl,     \* the adaptive compression controller
    files,    \* checkpoint files written by dump_checkpoint
    model,    \* what the model's weights were last restored from
    calls,    \* number of calls of the runner's operations so far
    changed,  \* was_compression_rate_changed of the current iteration
    ret       \* what an operation called on its own has returned

vars == <<pc, cfg, runner, ctrl, files, model, calls, changed, ret>>

----------------------------------------------------------------------------
(* Bounds of the model *)

\* num_curve_pts of interpolate_compression_step_update (1000 in the source),
\* scaled down; every rate below is derived from it.
num_curve_pts == 41

\* largest maximal_total_epochs a configuration is drawn with
MaxTotalEpochs == 4

\* largest initial_training_phase_epochs a configuration is drawn with
MaxInitEpochs == 1

\* longest training history interpolate_compression_step_update is applied
\* to on its own
MaxHistoryLen == 2

\* largest number of child controllers of a composite controller
MaxChildren == 2

\* largest number of validate calls made on a runner on its own
MaxValidations == 3

----------------------------------------------------------------------------
(* Python values *)

None == << >>
Some(v) == << v >>
Val(o) == o[1]

Abs(x) == IF x < 0 THEN -x ELSE x

\* np.sign
Sign(x) == IF x > 0 THEN 1 ELSE IF x < 0 THEN -1 ELSE 0

SetMax(S) == CHOOSE x \in S : \A y \in S : y <= x

----------------------------------------------------------------------------
(* Rates *)

\* one unit of rate is 1/RateScale
RateScale == 20 * (num_curve_pts - 1)

\* np.linspace(0.0, 1.0, num=num_curve_pts, endpoint=True)
rate_interval == { 20 * i : i \in 0 .. (num_curve_pts - 1) }

\* '{comp_rate:.3f}'.format(...): the rate rounded to thousandths
FormatRate(r) == (2000 * r + RateScale) \div (2 * RateScale)

----------------------------------------------------------------------------
(* Inputs: the configuration, the model, the validation callable *)

\* values the validation callable (_validate_fn) returns
Metrics == {60, 99, 129}

\* compression rate the controller starts with: 0.0, 0.1, 0.9
StartRates == {0, RateScale \div 10, (9 * RateScale) \div 10}

Configs ==
    [ has_original_accuracy         : BOOLEAN,
      original_model_accuracy       : {100},
      maximal_accuracy_drop         : {1, 2},
      is_higher_metric_better       : BOOLEAN,
      initial_training_phase_epochs : 0 .. MaxInitEpochs,
      patience_epochs               : {0, 1, 2},
      maximal_total_epochs          : {0, 2, MaxTotalEpochs},
      minimal_compression_rate_step : {RateScale \div 40},
      minimal_compression_rate      : {RateScale \div 20},
      maximal_compression_rate      : {(19 * RateScale) \div 20},
      validate_every_n_epochs       : {None, Some(1)},
      step_reduction_factor         : {[num |-> 1, den |-> 2]},
      compression_rate              : StartRates ]

----------------------------------------------------------------------------
(* TFAccuracyAwareTrainingRunner *)

\* the fields set by BaseAccuracyAwareTrainingRunner.__init__
NewRunner(c) ==
    [ training_epoch_count                   |-> 0,
      cumulative_epoch_count                 |-> 0,
      best_val_metric_value                  |-> 0,
      current_val_metric_value               |-> None,
      compression_rate_target                |-> None,
      compression_rate_step                  |-> RateScale \div 10,
      accuracy_bugdet                        |-> None,
      was_compression_increased_on_prev_step |-> None,
      minimal_tolerable_accuracy             |-> None,
      validate_every_n_epochs                |-> c.validate_every_n_epochs,
      step_reduction_factor                  |-> c.step_reduction_factor,
      _compressed_training_history           |-> << >> ]

\* uncompressed_model_accuracy * (1 - 0.01 * maximal_accuracy_drop)
MinimalTolerableAccuracy(c) ==
    (c.original_model_accuracy * (100 - c.maximal_accuracy_drop)) \div 100

retrieve_original_accuracy(r, c) ==
    [r EXCEPT !.minimal_tolerable_accuracy = Some(MinimalTolerableAccuracy(c))]

\* mutant of is_best: the direction is ignored
is_best_HigherOnly(r, c, val_metric_value) ==
    val_metric_value > r.best_val_metric_value

\* is_best = (not is_higher_metric_better) != (val_metric_value > best_val_metric_value)
is_best(r, c, val_metric_value) ==
    (~c.is_higher_metric_better) # (val_metric_value > r.best_val_metric_value)

validate(r, c, val_metric_value) ==
    IF is_best(r, c, val_metric_value)
    THEN [r EXCEPT !.best_val_metric_value = val_metric_value]
    ELSE r

\* mutant of reset_training: training_epoch_count is not zeroed
reset_training_KeepsCount(r) ==
    [r EXCEPT !.best_val_metric_value = 0]

reset_training(r) ==
    [r EXCEPT !.training_epoch_count = 0, !.best_val_metric_value = 0]

\* the condition under which dump_checkpoint writes the best checkpoint
dumps_best(r) ==
    /\ r.current_val_metric_value # None
    /\ r.best_val_metric_value = Val(r.current_val_metric_value)

\* dump_checkpoint: the "last" file always; the best file of the target rate
\* when the current metric is the best one.  Formatting a target of None
\* with '{comp_rate:.3f}' raises TypeError after the "last" file is written.
dump_checkpoint(r, f) ==
    LET last == [f EXCEPT !.last = Some(r.cumulative_epoch_count)]
    IN  IF ~dumps_best(r)
        THEN [files |-> last, raised |-> FALSE]
        ELSE IF r.compression_rate_target = None
        THEN [files |-> last, raised |-> TRUE]
        ELSE LET key == FormatRate(Val(r.compression_rate_target))
                 new == [ key    |-> key,
                          rate   |-> Val(r.compression_rate_target),
                          epoch  |-> r.cumulative_epoch_count,
                          metric |-> Val(r.current_val_metric_value) ]
             IN  [ files  |-> [last EXCEPT !.best =
                                  {b \in @ : b.key # key} \cup {new}],
                   raised |-> FALSE ]

\* whether this train_epoch call validates
validates(r) ==
    /\ r.validate_every_n_epochs # None
    /\ r.training_epoch_count % Val(r.validate_every_n_epochs) = 0

train_epoch(r, c, f, val_metric_value) ==
    LET r1 == [r EXCEPT !.current_val_metric_value = None]
        r2 == IF validates(r1)
              THEN [validate(r1, c, val_metric_value)
                       EXCEPT !.current_val_metric_value = Some(val_metric_value)]
              ELSE r1
        d  == dump_checkpoint(r2, f)
    IN  IF d.raised
        THEN [runner |-> r2, files |-> d.files, raised |-> TRUE,
              validated |-> validates(r1)]
        ELSE [runner |-> [r2 EXCEPT !.training_epoch_count = @ + 1,
                                    !.cumulative_epoch_count = @ + 1],
              files |-> d.files, raised |-> FALSE,
              validated |-> validates(r1)]

update_training_history(r, compression_rate, best_metric_value) ==
    [r EXCEPT !._compressed_training_history =
        Append(@, << compression_rate,
                     best_metric_value - Val(r.minimal_tolerable_accuracy) >>)]

\* mutant of compressed_training_history: the first pair of a rate wins
compressed_training_history_FirstWins(r) ==
    LET h == r._compressed_training_history
        keys == { h[i][1] : i \in DOMAIN h }
    IN  [ k \in keys |->
            h[CHOOSE i \in DOMAIN h :
                /\ h[i][1] = k
                /\ \A j \in DOMAIN h : h[j][1] = k => i <= j][2] ]

\* dict(self._compressed_training_history): the last pair of a rate wins
compressed_training_history(r) ==
    LET h == r._compressed_training_history
        keys == { h[i][1] : i \in DOMAIN h }
    IN  [ k \in keys |->
            h[SetMax({ i \in DOMAIN h : h[i][1] = k })][2] ]

possible_checkpoint_rates(r) ==
    LET h == r._compressed_training_history
    IN  { h[i][1] : i \in { j \in DOMAIN h : h[j][2] >= 0 } }

\* mutant of load_best_checkpoint: an empty candidate list is ignored
load_best_checkpoint_Silent(r, f) ==
    IF possible_checkpoint_rates(r) = {}
    THEN [outcome |-> "loaded", loaded |-> None]
    ELSE LET key == FormatRate(SetMax(possible_checkpoint_rates(r)))
         IN  IF \E b \in f.best : b.key = key
             THEN [outcome |-> "loaded",
                   loaded  |-> Some(CHOOSE b \in f.best : b.key = key)]
             ELSE [outcome |-> "not_found", loaded |-> None]

\* load_best_checkpoint: "value_error" is max() of an empty list,
\* "not_found" is load_weights of a file that was never written
load_best_checkpoint(r, f) ==
    IF possible_checkpoint_rates(r) = {}
    THEN [outcome |-> "value_error", loaded |-> None]
    ELSE LET best_checkpoint_compression_rate ==
                 SetMax(possible_checkpoint_rates(r))
             key == FormatRate(best_checkpoint_compression_rate)
         IN  IF \E b \in f.best : b.key = key
             THEN [outcome |-> "loaded",
                   loaded  |-> Some(CHOOSE b \in f.best : b.key = key)]
             ELSE [outcome |-> "not_found", loaded |-> None]

----------------------------------------------------------------------------
(* Step-size predictor: interpolate_compression_step_update *)

\* mutant of training_history: a boundary point is added only where the
\* history has no entry
training_history_KeepsRecorded(r, c) ==
    LET th == compressed_training_history(r)
    IN  [ k \in DOMAIN th \cup {0, RateScale} |->
            IF k \in DOMAIN th THEN th[k]
            ELSE IF k = 0 THEN c.maximal_accuracy_drop
            ELSE (-10) * c.maximal_accuracy_drop ]

\* training_history after lines 192-195: a copy of the history mapping with
\* the two synthetic boundary points written over it
training_history(r, c) ==
    LET th == compressed_training_history(r)
    IN  [ k \in DOMAIN th \cup {0, RateScale} |->
            IF k = 0 THEN c.maximal_accuracy_drop
            ELSE IF k = RateScale THEN (-10) * c.maximal_accuracy_drop
            ELSE th[k] ]

\* interp1d(kind='linear') at x, as the fraction num/den with den > 0
linear_curve(th, x) ==
    LET lo == SetMax({ k \in DOMAIN th : k <= x })
        hi == -SetMax({ -k : k \in { j \in DOMAIN th : j >= x } })
    IN  IF lo = hi
        THEN [num |-> th[lo], den |-> 1]
        ELSE [num |-> th[lo] * (hi - lo) + (th[hi] - th[lo]) * (x - lo),
              den |-> hi - lo]

\* acc_budget_vs_comp_rate_curve (line 198) at a point x of training_history:
\* interp1d interpolates, so the cubic curve too takes the value of the point
acc_budget_vs_comp_rate_curve(th, x) ==
    IF Cardinality(DOMAIN th) < 4
    THEN linear_curve(th, x)
    ELSE [num |-> th[x], den |-> 1]

\* |a| < |b| and |a| <= |b| for fractions
AbsLess(a, b) == Abs(a.num) * b.den < Abs(b.num) * a.den
AbsLeq(a, b) == Abs(a.num) * b.den <= Abs(b.num) * a.den

\* mutant of linear_argmin: the last minimum instead of the first
linear_argmin_LastMinimum(th) ==
    CHOOSE x \in rate_interval :
        \E acc_budget_values \in
                {[z \in rate_interval |-> linear_curve(th, z)]} :
            \A z \in rate_interval :
                IF z > x
                THEN AbsLess(acc_budget_values[x], acc_budget_values[z])
                ELSE AbsLeq(acc_budget_values[x], acc_budget_values[z])

\* rate_interval[np.argmin(np.abs(acc_budget_values))]: the first minimum
\* of the sampled curve acc_budget_values
linear_argmin(th) ==
    CHOOSE x \in rate_interval :
        \E acc_budget_values \in
                {[z \in rate_interval |-> linear_curve(th, z)]} :
            \A z \in rate_interval :
                IF z < x
                THEN AbsLess(acc_budget_values[x], acc_budget_values[z])
                ELSE AbsLeq(acc_budget_values[x], acc_budget_values[z])

\* Rates at which the cubic curve of scipy is probed.  The cubic spline is
\* library code: the model keeps that it passes through the points of
\* training_history and leaves its value elsewhere open.
CubicProbe ==
    {20, 20 * ((num_curve_pts - 1) \div 2), 20 * (num_curve_pts - 2)}

\* what np.argmin may return for interp1d(kind='cubic'): a sampled rate x;
\* if x is a recorded rate, no sampled recorded rate has a smaller |budget|
\* (nor an equal one at a lower rate); otherwise no sampled recorded rate
\* below x has budget 0
cubic_argmin(th) ==
    LET on_grid == DOMAIN th \cap rate_interval
    IN  { x \in on_grid \cup CubicProbe :
            IF x \in on_grid
            THEN \A z \in on_grid :
                    IF z < x THEN Abs(th[x]) < Abs(th[z])
                             ELSE Abs(th[x]) <= Abs(th[z])
            ELSE \A z \in on_grid : z < x => th[z] # 0 }

\* the values target_compression_rate (line 203) can take
target_compression_rate(r, c) ==
    UNION { IF Cardinality(DOMAIN th) < 4
            THEN {linear_argmin(th)}
            ELSE cubic_argmin(th) : th \in {training_history(r, c)} }

\* mutant of interpolate_compression_step_update: the two boundary points
\* are written into the stored history instead of a copy
interpolate_compression_step_update_InPlace(r, current_compression_rate, predicted) ==
    LET base == IF r.compression_rate_target = None
                THEN current_compression_rate
                ELSE Val(r.compression_rate_target)
    IN  [ runner |-> [r EXCEPT
              !.compression_rate_step = Abs(predicted - base),
              !._compressed_training_history =
                  @ \o << <<0, cfg.maximal_accuracy_drop>>,
                          <<RateScale, (-10) * cfg.maximal_accuracy_drop>> >>],
          delta  |-> predicted - base ]

\* lines 207-211, given the predicted rate: the new compression_rate_step
\* and the returned delta
interpolate_compression_step_update(r, current_compression_rate, predicted) ==
    LET base == IF r.compression_rate_target = None
                THEN current_compression_rate
                ELSE Val(r.compression_rate_target)
    IN  [ runner |-> [r EXCEPT !.compression_rate_step = Abs(predicted - base)],
          delta  |-> predicted - base ]

\* mutant of uniform_decrease_compression_step_update: the step is reduced
\* also when was_compression_increased_on_prev_step is None
uniform_decrease_compression_step_update_NoNoneTest(r) ==
    LET best_accuracy_budget_sign ==
            Sign(r.best_val_metric_value - Val(r.minimal_tolerable_accuracy))
        r1 == IF r.was_compression_increased_on_prev_step
                    # Some(best_accuracy_budget_sign)
              THEN [r EXCEPT !.compression_rate_step =
                        (@ * r.step_reduction_factor.num)
                            \div r.step_reduction_factor.den]
              ELSE r
    IN  [ runner |-> r1,
          delta  |-> best_accuracy_budget_sign * r1.compression_rate_step ]

\* lines 177-183: the runner afterwards and the returned delta.
\* step_reduction_factor is the fraction num/den
uniform_decrease_compression_step_update(r) ==
    LET best_accuracy_budget_sign ==
            Sign(r.best_val_metric_value - Val(r.minimal_tolerable_accuracy))
        r1 == IF /\ r.was_compression_increased_on_prev_step # None
                 /\ Val(r.was_compression_increased_on_prev_step)
                        # best_accuracy_budget_sign
              THEN [r EXCEPT !.compression_rate_step =
                        (@ * r.step_reduction_factor.num)
                            \div r.step_reduction_factor.den]
              ELSE r
    IN  [ runner |-> r1,
          delta  |-> best_accuracy_budget_sign * r1.compression_rate_step ]

\* compression_step_updaters (lines 170-174): what each policy would do
compression_step_updaters(r, current_compression_rate, predicted) ==
    [ uniform_decrease |-> uniform_decrease_compression_step_update(r),
      interpolate |-> interpolate_compression_step_update(r,
                          current_compression_rate, predicted) ]

\* the parameter stepping_mode of determine_compression_rate_step_value: its
\* default (line 169), as update_target_compression_rate never passes it
stepping_mode == "interpolate"

determine_compression_rate_step_value(r, current_compression_rate, predicted) ==
    compression_step_updaters(r, current_compression_rate,
                              predicted)[stepping_mode]

\* mutant of update_target_compression_rate: patience is compared with >
update_target_compression_rate_Late(r, c, current_compression_rate, predicted) ==
    LET best_accuracy_budget ==
            r.best_val_metric_value - Val(r.minimal_tolerable_accuracy)
        s == determine_compression_rate_step_value(r, current_compression_rate,
                                                   predicted)
    IN  IF r.compression_rate_target = None
        THEN [ runner |-> [s.runner EXCEPT
                   !.compression_rate_target =
                        Some(current_compression_rate + s.delta),
                   !.was_compression_increased_on_prev_step =
                        Some(Sign(best_accuracy_budget))],
               disable_scheduler |-> TRUE,
               changed |-> TRUE ]
        ELSE IF r.training_epoch_count > c.patience_epochs
        THEN [ runner |-> [s.runner EXCEPT
                   !.compression_rate_target =
                        Some(Val(r.compression_rate_target) + s.delta),
                   !.was_compression_increased_on_prev_step =
                        Some(Sign(best_accuracy_budget))],
               disable_scheduler |-> FALSE,
               changed |-> TRUE ]
        ELSE [ runner |-> r, disable_scheduler |-> FALSE, changed |-> FALSE ]

\* mutant of update_target_compression_rate: the scheduler is disabled at
\* every re-evaluation of the target
update_target_compression_rate_AlwaysDisables(r, c, current_compression_rate, predicted) ==
    LET best_accuracy_budget ==
            r.best_val_metric_value - Val(r.minimal_tolerable_accuracy)
        s == determine_compression_rate_step_value(r, current_compression_rate,
                                                   predicted)
    IN  IF r.compression_rate_target = None
        THEN [ runner |-> [s.runner EXCEPT
                   !.compression_rate_target =
                        Some(current_compression_rate + s.delta),
                   !.was_compression_increased_on_prev_step =
                        Some(Sign(best_accuracy_budget))],
               disable_scheduler |-> TRUE,
               changed |-> TRUE ]
        ELSE IF r.training_epoch_count >= c.patience_epochs
        THEN [ runner |-> [s.runner EXCEPT
                   !.compression_rate_target =
                        Some(Val(r.compression_rate_target) + s.delta),
                   !.was_compression_increased_on_prev_step =
                        Some(Sign(best_accuracy_budget))],
               disable_scheduler |-> TRUE,
               changed |-> TRUE ]
        ELSE [ runner |-> r, disable_scheduler |-> FALSE, changed |-> FALSE ]

\* update_target_compression_rate: the runner afterwards, whether the
\* scheduler was disabled, and the returned flag
update_target_compression_rate(r, c, current_compression_rate, predicted) ==
    LET best_accuracy_budget ==
            r.best_val_metric_value - Val(r.minimal_tolerable_accuracy)
        s == determine_compression_rate_step_value(r, current_compression_rate,
                                                   predicted)
    IN  IF r.compression_rate_target = None
        THEN [ runner |-> [s.runner EXCEPT
                   !.compression_rate_target =
                        Some(current_compression_rate + s.delta),
                   !.was_compression_increased_on_prev_step =
                        Some(Sign(best_accuracy_budget))],
               disable_scheduler |-> TRUE,
               changed |-> TRUE ]
        ELSE IF r.training_epoch_count >= c.patience_epochs
        THEN [ runner |-> [s.runner EXCEPT
                   !.compression_rate_target =
                        Some(Val(r.compression_rate_target) + s.delta),
                   !.was_compression_increased_on_prev_step =
                        Some(Sign(best_accuracy_budget))],
               disable_scheduler |-> FALSE,
               changed |-> TRUE ]
        ELSE [ runner |-> r, disable_scheduler |-> FALSE, changed |-> FALSE ]

----------------------------------------------------------------------------
(* AdaptiveCompressionTrainingLoop.run *)

Terminal == { "precondition_error", "type_error", "infeasible_error",
              "value_error", "checkpoint_not_found",
              "returned_maximal", "returned_best" }

NoCalls ==
    [ train_epoch |-> 0, validate |-> 0, update_training_history |-> 0,
      reset_training |-> 0, disable_scheduler |-> 0, set_compression_rate |-> 0,
      load_best_checkpoint |-> 0, predictor |-> 0 ]

Init ==
    /\ pc = "start"
    /\ cfg \in Configs
    /\ runner = NewRunner(cfg)
    /\ ctrl = [compression_rate |-> cfg.compression_rate]
    /\ files = [last |-> None, best |-> {}]
    /\ model = None
    /\ calls = NoCalls
    /\ changed = FALSE
    /\ ret = None

\* mutant of RetrieveOriginalAccuracy: the attribute is not tested
RetrieveOriginalAccuracy_Unchecked ==
    /\ pc = "start"
    /\ runner' = retrieve_original_accuracy(runner, cfg)
    /\ pc' = "initial_training"
    /\ UNCHANGED <<ret, cfg, ctrl, files, model, calls, changed>>

\* lines 93-95: retrieve_original_accuracy raises when the model has no
\* original_model_accuracy
RetrieveOriginalAccuracy ==
    /\ pc = "start"
    /\ IF cfg.has_original_accuracy
       THEN /\ runner' = retrieve_original_accuracy(runner, cfg)
            /\ pc' = "initial_training"
       ELSE /\ pc' = "precondition_error"
            /\ UNCHANGED runner
    /\ UNCHANGED <<ret, cfg, ctrl, files, model, calls, changed>>

\* one runner.train_epoch call made by run: the state after it, for the
\* metric the validation callable would return
TrainEpochStep(val_metric_value, next_pc) ==
    LET t == train_epoch(runner, cfg, files, val_metric_value)
    IN  /\ runner' = t.runner
        /\ files' = t.files
        /\ calls' = [calls EXCEPT
                !.train_epoch = @ + 1,
                !.validate = IF t.validated THEN @ + 1 ELSE @]
        /\ pc' = IF t.raised THEN "type_error" ELSE next_pc

\* lines 145-146: one pass of the loop of run_initial_training_phase
InitialTrainEpoch ==
    /\ pc = "initial_training"
    /\ runner.cumulative_epoch_count < cfg.initial_training_phase_epochs
    /\ \E m \in Metrics : TrainEpochStep(m, "initial_training")
    /\ UNCHANGED <<ret, cfg, ctrl, model, changed>>

\* lines 147-148: the validation that ends run_initial_training_phase
InitialValidate ==
    /\ pc = "initial_training"
    /\ runner.cumulative_epoch_count >= cfg.initial_training_phase_epochs
    /\ \E m \in Metrics :
          runner' = [validate(runner, cfg, m) EXCEPT
                        !.accuracy_bugdet =
                            Some(m - Val(runner.minimal_tolerable_accuracy))]
    /\ calls' = [calls EXCEPT !.validate = @ + 1]
    /\ pc' = "seed"
    /\ UNCHANGED <<ret, cfg, ctrl, files, model, changed>>

\* mutant of SeedHistory: validate_every_n_epochs is left as configured
SeedHistory_KeepsInterval ==
    /\ pc = "seed"
    /\ runner' = update_training_history(runner, ctrl.compression_rate,
                                         runner.best_val_metric_value)
    /\ calls' = [calls EXCEPT !.update_training_history = @ + 1]
    /\ pc' = "loop"
    /\ UNCHANGED <<ret, cfg, ctrl, files, model, changed>>

\* lines 97-103: the first history entry, and validate_every_n_epochs = 1
SeedHistory ==
    /\ pc = "seed"
    /\ runner' = [update_training_history(runner, ctrl.compression_rate,
                                          runner.best_val_metric_value)
                    EXCEPT !.validate_every_n_epochs = Some(1)]
    /\ calls' = [calls EXCEPT !.update_training_history = @ + 1]
    /\ pc' = "loop"
    /\ UNCHANGED <<ret, cfg, ctrl, files, model, changed>>

\* mutant of LoopCondition: the epoch budget is compared with <=
LoopCondition_OffByOne ==
    /\ runner.compression_rate_step >= cfg.minimal_compression_rate_step
    /\ runner.cumulative_epoch_count <= cfg.maximal_total_epochs

\* the condition of the while loop, lines 104-105
LoopCondition ==
    /\ runner.compression_rate_step >= cfg.minimal_compression_rate_step
    /\ runner.cumulative_epoch_count < cfg.maximal_total_epochs

\* lines 104-109: an iteration starts; the finished phase is recorded
SnapshotHistory ==
    /\ pc = "loop"
    /\ LoopCondition
    /\ IF runner.compression_rate_target # None
       THEN /\ runner' = update_training_history(runner,
                            Val(runner.compression_rate_target),
                            runner.best_val_metric_value)
            /\ calls' = [calls EXCEPT !.update_training_history = @ + 1]
       ELSE UNCHANGED <<runner, calls>>
    /\ pc' = "update"
    /\ UNCHANGED <<ret, cfg, ctrl, files, model, changed>>

\* line 111
UpdateTargetCompressionRate ==
    /\ pc = "update"
    /\ LET called == \/ runner.compression_rate_target = None
                     \/ runner.training_epoch_count >= cfg.patience_epochs
       IN  \E predicted \in (IF called
                             THEN target_compression_rate(runner, cfg)
                             ELSE {0}) :
             LET u == update_target_compression_rate(runner, cfg,
                          ctrl.compression_rate, predicted)
             IN  /\ runner' = u.runner
                 /\ changed' = u.changed
                 /\ calls' = [calls EXCEPT
                        !.predictor = IF called THEN @ + 1 ELSE @,
                        !.disable_scheduler =
                            IF u.disable_scheduler THEN @ + 1 ELSE @]
    /\ pc' = "check"
    /\ UNCHANGED <<ret, cfg, ctrl, files, model>>

\* mutant of RaiseInfeasible: the phase is reset before the check raises
RaiseInfeasible_AfterReset ==
    /\ pc = "check"
    /\ changed
    /\ Val(runner.compression_rate_target) < cfg.minimal_compression_rate
    /\ runner' = reset_training(runner)
    /\ calls' = [calls EXCEPT !.reset_training = @ + 1]
    /\ pc' = "infeasible_error"
    /\ UNCHANGED <<ret, cfg, ctrl, files, model, changed>>

\* lines 118-121
RaiseInfeasible ==
    /\ pc = "check"
    /\ changed
    /\ Val(runner.compression_rate_target) < cfg.minimal_compression_rate
    /\ pc' = "infeasible_error"
    /\ UNCHANGED <<ret, cfg, runner, ctrl, files, model, calls, changed>>

\* mutant of ReturnMaximal: the loop is left with break instead of return
ReturnMaximal_Break ==
    /\ pc = "check"
    /\ changed
    /\ Val(runner.compression_rate_target) >= cfg.minimal_compression_rate
    /\ Val(runner.compression_rate_target) > cfg.maximal_compression_rate
    /\ pc' = "finalize"
    /\ UNCHANGED <<ret, cfg, runner, ctrl, files, model, calls, changed>>

\* lines 122-125
ReturnMaximal ==
    /\ pc = "check"
    /\ changed
    /\ Val(runner.compression_rate_target) >= cfg.minimal_compression_rate
    /\ Val(runner.compression_rate_target) > cfg.maximal_compression_rate
    /\ pc' = "returned_maximal"
    /\ UNCHANGED <<ret, cfg, runner, ctrl, files, model, calls, changed>>

\* mutant of ResetAndSetRate: the target is not compared with the maximum
ResetAndSetRate_NoMaximum ==
    /\ pc = "check"
    /\ changed
    /\ Val(runner.compression_rate_target) >= cfg.minimal_compression_rate
    /\ runner' = reset_training(runner)
    /\ ctrl' = [ctrl EXCEPT !.compression_rate =
                                Val(runner.compression_rate_target)]
    /\ calls' = [calls EXCEPT !.reset_training = @ + 1,
                              !.set_compression_rate = @ + 1]
    /\ pc' = "train"
    /\ UNCHANGED <<ret, cfg, files, model, changed>>

\* lines 127-132
ResetAndSetRate ==
    /\ pc = "check"
    /\ changed
    /\ Val(runner.compression_rate_target) >= cfg.minimal_compression_rate
    /\ Val(runner.compression_rate_target) <= cfg.maximal_compression_rate
    /\ runner' = reset_training(runner)
    /\ ctrl' = [ctrl EXCEPT !.compression_rate =
                                Val(runner.compression_rate_target)]
    /\ calls' = [calls EXCEPT !.reset_training = @ + 1,
                              !.set_compression_rate = @ + 1]
    /\ pc' = "train"
    /\ UNCHANGED <<ret, cfg, files, model, changed>>

\* line 118 when the target was not changed
KeepTarget ==
    /\ pc = "check"
    /\ ~changed
    /\ pc' = "train"
    /\ UNCHANGED <<ret, cfg, runner, ctrl, files, model, calls, changed>>

\* lines 134-137: a returned None makes the subtraction raise TypeError
SearchTrainEpoch ==
    /\ pc = "train"
    /\ \E m \in Metrics :
          LET t == train_epoch(runner, cfg, files, m)
              ok == ~t.raised /\ t.runner.current_val_metric_value # None
          IN  /\ runner' = IF ok
                           THEN [t.runner EXCEPT !.accuracy_bugdet =
                                    Some(Val(t.runner.current_val_metric_value)
                                         - Val(t.runner.minimal_tolerable_accuracy))]
                           ELSE t.runner
              /\ files' = t.files
              /\ calls' = [calls EXCEPT
                      !.train_epoch = @ + 1,
                      !.validate = IF t.validated THEN @ + 1 ELSE @]
              /\ pc' = IF ok THEN "loop" ELSE "type_error"
    /\ UNCHANGED <<ret, cfg, ctrl, model, changed>>

\* the while loop ends, lines 104-105
ExitLoop ==
    /\ pc = "loop"
    /\ ~LoopCondition
    /\ pc' = "finalize"
    /\ UNCHANGED <<ret, cfg, runner, ctrl, files, model, calls, changed>>

\* lines 139-140
LoadBestCheckpoint ==
    /\ pc = "finalize"
    /\ LET l == load_best_checkpoint(runner, files)
       IN  /\ model' = l.loaded
           /\ pc' = CASE l.outcome = "value_error" -> "value_error"
                      [] l.outcome = "not_found" -> "checkpoint_not_found"
                      [] OTHER -> "returned_best"
    /\ calls' = [calls EXCEPT !.load_best_checkpoint = @ + 1]
    /\ UNCHANGED <<ret, cfg, runner, ctrl, files, changed>>

Next ==
    \/ RetrieveOriginalAccuracy
    \/ InitialTrainEpoch
    \/ InitialValidate
    \/ SeedHistory
    \/ SnapshotHistory
    \/ UpdateTargetCompressionRate
    \/ RaiseInfeasible
    \/ ReturnMaximal
    \/ ResetAndSetRate
    \/ KeepTarget
    \/ SearchTrainEpoch
    \/ ExitLoop
    \/ LoadBestCheckpoint

Spec == Init /\ [][Next]_vars

\* run is one sequential call: a step that can be taken is taken
FairSpec == Spec /\ WF_vars(Next)

----------------------------------------------------------------------------
(* uniform_decrease_compression_step_update called on its own *)

\* compression_rate_step before the call, in units of 1/RateScale: multiples
\* of every denominator of UniformFactors, so that the product is exact
UniformSteps == {0, 16, 80, 160}

\* step_reduction_factor: 0.5, 0.25, 0.75
UniformFactors ==
    { [num |-> 1, den |-> 2], [num |-> 1, den |-> 4], [num |-> 3, den |-> 4] }

\* was_compression_increased_on_prev_step: None or np.sign of a budget
PrevSigns == {None, Some(-1), Some(0), Some(1)}

\* a runner after retrieve_original_accuracy, in any state of the fields the
\* policy reads
UniformInit ==
    /\ pc = "uniform_decrease"
    /\ cfg \in { c \in Configs :
                   /\ c.has_original_accuracy
                   /\ c.is_higher_metric_better
                   /\ c.initial_training_phase_epochs = 0
                   /\ c.patience_epochs = 1
                   /\ c.maximal_total_epochs = MaxTotalEpochs
                   /\ c.validate_every_n_epochs = Some(1)
                   /\ c.compression_rate = 0 }
    /\ \E m \in Metrics, w \in PrevSigns, s \in UniformSteps,
          f \in UniformFactors :
          runner = [retrieve_original_accuracy(NewRunner(cfg), cfg) EXCEPT
                        !.best_val_metric_value = m,
                        !.was_compression_increased_on_prev_step = w,
                        !.compression_rate_step = s,
                        !.step_reduction_factor = f]
    /\ ctrl = [compression_rate |-> cfg.compression_rate]
    /\ files = [last |-> None, best |-> {}]
    /\ model = None
    /\ calls = NoCalls
    /\ changed = FALSE
    /\ ret = None

UniformDecreaseStep ==
    /\ pc = "uniform_decrease"
    /\ LET u == uniform_decrease_compression_step_update(runner)
       IN  /\ runner' = u.runner
           /\ ret' = Some(u.delta)
    /\ pc' = "uniform_returned"
    /\ UNCHANGED <<cfg, ctrl, files, model, calls, changed>>

UniformNext == UniformDecreaseStep

UniformSpec == UniformInit /\ [][UniformNext]_vars

----------------------------------------------------------------------------
(* interpolate_compression_step_update called on its own, and through *)
(* update_target_compression_rate *)

\* rates and budgets of the pairs of a training history; the rates include
\* both ends of [0, 1]
HistoryRates == {0, 20, 20 * ((num_curve_pts - 1) \div 2), RateScale}
HistoryBudgets == {-1, 0, 3}

\* the lists update_training_history can have built
Histories ==
    UNION { [1 .. n -> HistoryRates \X HistoryBudgets] : n \in 0 .. MaxHistoryLen }

\* a runner after retrieve_original_accuracy with any such history, with or
\* without a target, at the start of a phase or one epoch into it
InterpolateInit ==
    /\ pc = "interpolate"
    /\ cfg \in { c \in Configs :
                   /\ c.has_original_accuracy
                   /\ c.is_higher_metric_better
                   /\ c.initial_training_phase_epochs = 0
                   /\ c.patience_epochs = 1
                   /\ c.maximal_total_epochs = MaxTotalEpochs
                   /\ c.validate_every_n_epochs = Some(1)
                   /\ c.compression_rate = RateScale \div 10 }
    /\ \E h \in Histories,
          t \in {None, Some(20 * ((num_curve_pts - 1) \div 2))},
          n \in {0, 1} :
          runner = [retrieve_original_accuracy(NewRunner(cfg), cfg) EXCEPT
                        !._compressed_training_history = h,
                        !.compression_rate_target = t,
                        !.training_epoch_count = n]
    /\ ctrl = [compression_rate |-> cfg.compression_rate]
    /\ files = [last |-> None, best |-> {}]
    /\ model = None
    /\ calls = NoCalls
    /\ changed = FALSE
    /\ ret = None

\* a call of interpolate_compression_step_update
InterpolateStep ==
    /\ pc = "interpolate"
    /\ \E predicted \in target_compression_rate(runner, cfg) :
          LET s == interpolate_compression_step_update(runner,
                       ctrl.compression_rate, predicted)
          IN  /\ runner' = s.runner
              /\ ret' = Some(s.delta)
    /\ pc' = "interpolate_returned"
    /\ UNCHANGED <<cfg, ctrl, files, model, calls, changed>>

\* a call of update_target_compression_rate; ret is the delta it got from
\* determine_compression_rate_step_value, if it asked for one
UpdateTargetStep ==
    /\ pc = "interpolate"
    /\ \E predicted \in target_compression_rate(runner, cfg) :
          LET u == update_target_compression_rate(runner, cfg,
                       ctrl.compression_rate, predicted)
              s == determine_compression_rate_step_value(runner,
                       ctrl.compression_rate, predicted)
          IN  /\ runner' = u.runner
              /\ changed' = u.changed
              /\ ret' = IF u.changed THEN Some(s.delta) ELSE None
    /\ pc' = "target_updated"
    /\ UNCHANGED <<cfg, ctrl, files, model, calls>>

InterpolateNext ==
    \/ InterpolateStep
    \/ UpdateTargetStep

InterpolateSpec == InterpolateInit /\ [][InterpolateNext]_vars

----------------------------------------------------------------------------
(* AdaptiveCompressionTrainingLoop.__init__ *)

\* Controller classes.  A controller is the set of classes it is an instance
\* of, and the list of its children if it is a composite one.
CompositeType == "CompositeCompressionAlgorithmController"
AdaptiveTypes == {"FilterPruningController", "MagnitudeSparsityController"}

SimpleControllers ==
    { [classes |-> {t}, child_ctrls |-> << >>] :
        t \in AdaptiveTypes \cup {"QuantizationController"} }

CompositeControllers ==
    { [classes |-> {CompositeType}, child_ctrls |-> ch] :
        ch \in UNION { [1 .. n -> SimpleControllers] : n \in 0 .. MaxChildren } }

\* ADAPTIVE_COMPRESSION_CONTROLLERS.registry_dict: algorithm name -> type, in
\* the order of registration
Registries ==
    LET fp == [algo_name |-> "filter_pruning",
               ctrl_type |-> "FilterPruningController"]
        ms == [algo_name |-> "magnitude_sparsity",
               ctrl_type |-> "MagnitudeSparsityController"]
    IN  { << >>, <<fp>>, <<fp, ms>>, <<ms, fp>> }

\* the 'accuracy_aware_training' sections: two configurations that differ
\* in validate_every_n_epochs
AccuracyAwareParams ==
    { c \in Configs :
        /\ c.has_original_accuracy
        /\ c.is_higher_metric_better
        /\ c.maximal_accuracy_drop = 1
        /\ c.initial_training_phase_epochs = 0
        /\ c.patience_epochs = 1
        /\ c.maximal_total_epochs = MaxTotalEpochs
        /\ c.compression_rate = 0 }

\* one algorithm section of the 'compression' part of the configuration
CompressionSections ==
    [ algorithm : {"filter_pruning", "magnitude_sparsity", "quantization"},
      accuracy_aware_training : { Some(c) : c \in AccuracyAwareParams } ]

\* nncf_config: 'compression' is absent, one section, or a list of sections
NNCFConfigs ==
    { [compression |-> None] }
    \cup { [compression |-> Some([is_list |-> FALSE, items |-> <<sec>>])] :
            sec \in CompressionSections }
    \cup { [compression |-> Some([is_list |-> TRUE, items |-> l])] :
            l \in UNION { [1 .. n -> CompressionSections] : n \in 0 .. 2 } }

isinstance(controller, ctrl_type) == ctrl_type \in controller.classes

\* lines 68-73: the sections by algorithm name (of two sections of one
\* algorithm the later one); {}['algorithm'] raises KeyError when the
\* configuration has no 'compression'
comp_algorithm_params_dict(nncf_config) ==
    IF nncf_config.compression = None
    THEN [raised |-> TRUE, dict |-> << >>]
    ELSE LET items == Val(nncf_config.compression).items
         IN  [ raised |-> FALSE,
               dict |-> [ a \in { items[i].algorithm : i \in DOMAIN items } |->
                            items[SetMax({ i \in DOMAIN items :
                                             items[i].algorithm = a })] ] ]

\* mutant of get_adaptive_compression_ctrl: the registry is the outer loop,
\* the children the inner one
get_adaptive_compression_ctrl_Swapped(compression_controller, nncf_config, registry) ==
    LET d == comp_algorithm_params_dict(nncf_config)
        controllers == IF isinstance(compression_controller, CompositeType)
                       THEN compression_controller.child_ctrls
                       ELSE <<compression_controller>>
        matches == { m \in (DOMAIN controllers) \X (DOMAIN registry) :
                        isinstance(controllers[m[1]], registry[m[2]].ctrl_type) }
        first == CHOOSE m \in matches :
                    \A o \in matches :
                        m[2] < o[2] \/ (m[2] = o[2] /\ m[1] <= o[1])
        algo_name == registry[first[2]].algo_name
    IN  IF d.raised
        THEN [outcome |-> "key_error"]
        ELSE IF matches = {}
        THEN [outcome |-> "configuration_error"]
        ELSE IF algo_name \notin DOMAIN d.dict
        THEN [outcome |-> "key_error"]
        ELSE [ outcome |-> "resolved",
               controller |-> controllers[first[1]],
               acc_aware_config |-> d.dict[algo_name].accuracy_aware_training ]

\* lines 65-87.  The controllers looked at are the controller itself, or the
\* children of a composite one in their order; for each the registry is
\* searched in its order.
get_adaptive_compression_ctrl(compression_controller, nncf_config, registry) ==
    LET d == comp_algorithm_params_dict(nncf_config)
        controllers == IF isinstance(compression_controller, CompositeType)
                       THEN compression_controller.child_ctrls
                       ELSE <<compression_controller>>
        matches == { m \in (DOMAIN controllers) \X (DOMAIN registry) :
                        isinstance(controllers[m[1]], registry[m[2]].ctrl_type) }
        first == CHOOSE m \in matches :
                    \A o \in matches :
                        m[1] < o[1] \/ (m[1] = o[1] /\ m[2] <= o[2])
        algo_name == registry[first[2]].algo_name
    IN  IF d.raised
        THEN [outcome |-> "key_error"]
        ELSE IF matches = {}
        THEN [outcome |-> "configuration_error"]
        ELSE IF algo_name \notin DOMAIN d.dict
        THEN [outcome |-> "key_error"]
        ELSE [ outcome |-> "resolved",
               controller |-> controllers[first[1]],
               acc_aware_config |-> d.dict[algo_name].accuracy_aware_training ]

\* before __init__: no adaptive_controller, no runner
ConstructInit ==
    /\ pc = "construct"
    /\ cfg \in [ registry : Registries,
                  compression_controller :
                      SimpleControllers \cup CompositeControllers,
                  nncf_config : NNCFConfigs ]
    /\ runner = None
    /\ ctrl = None
    /\ files = [last |-> None, best |-> {}]
    /\ model = None
    /\ calls = NoCalls
    /\ changed = FALSE
    /\ ret = None

\* lines 53-63.  get_adaptive_compression_ctrl returns a controller or
\* raises, so the test of line 61 never fails.
Construct ==
    /\ pc = "construct"
    /\ LET g == get_adaptive_compression_ctrl(cfg.compression_controller,
                     cfg.nncf_config, cfg.registry)
       IN  IF g.outcome = "resolved"
           THEN /\ ctrl' = Some(g.controller)
                /\ runner' = Some(NewRunner(Val(g.acc_aware_config)))
                /\ pc' = "constructed"
           ELSE /\ pc' = g.outcome
                /\ UNCHANGED <<ctrl, runner>>
    /\ UNCHANGED <<cfg, files, model, calls, changed, ret>>

ConstructNext == Construct

ConstructSpec == ConstructInit /\ [][ConstructNext]_vars

----------------------------------------------------------------------------
(* validate and reset_training called on a runner on their own *)

\* values the validation callable returns here: also zero and a negative one
ValMetrics == {-7, 0, 60, 99}

\* a new runner after retrieve_original_accuracy, of either direction; ret
\* collects what validate has returned since the last reset_training
ValidateInit ==
    /\ pc = "validate"
    /\ cfg \in { c \in Configs :
                   /\ c.has_original_accuracy
                   /\ c.maximal_accuracy_drop = 1
                   /\ c.initial_training_phase_epochs = 0
                   /\ c.patience_epochs = 1
                   /\ c.maximal_total_epochs = MaxTotalEpochs
                   /\ c.validate_every_n_epochs = Some(1)
                   /\ c.compression_rate = 0 }
    /\ runner = retrieve_original_accuracy(NewRunner(cfg), cfg)
    /\ ctrl = [compression_rate |-> cfg.compression_rate]
    /\ files = [last |-> None, best |-> {}]
    /\ model = None
    /\ calls = NoCalls
    /\ changed = FALSE
    /\ ret = << >>

\* a call of validate: the validation callable returns val_metric_value
ValidateStep ==
    /\ pc = "validate"
    /\ calls.validate < MaxValidations
    /\ \E val_metric_value \in ValMetrics :
          /\ runner' = validate(runner, cfg, val_metric_value)
          /\ ret' = Append(ret, val_metric_value)
    /\ calls' = [calls EXCEPT !.validate = @ + 1]
    /\ UNCHANGED <<pc, cfg, ctrl, files, model, changed>>

\* a call of reset_training
ResetStep ==
    /\ pc = "validate"
    /\ calls.reset_training < calls.validate
    /\ runner' = reset_training(runner)
    /\ ret' = << >>
    /\ calls' = [calls EXCEPT !.reset_training = @ + 1]
    /\ UNCHANGED <<pc, cfg, ctrl, files, model, changed>>

ValidateNext ==
    \/ ValidateStep
    \/ ResetStep

ValidateSpec == ValidateInit /\ [][ValidateNext]_vars

----------------------------------------------------------------------------
(* Properties *)

\* the rates whose budget in the training-history mapping is non-negative
FeasibleRates ==
    { k \in DOMAIN compressed_training_history(runner) :
        compressed_training_history(runner)[k] >= 0 }

\* the rate recorded first by one entry and again by a later entry with
\* another budget
RecordedTwice(h) ==
    \E i, j \in DOMAIN h : i < j /\ h[i][1] = h[j][1] /\ h[i][2] # h[j][2]

\* C1: when load_best_checkpoint has restored a checkpoint, it is the best
\* checkpoint of the maximal rate among the rates whose budget in the
\* training-history mapping (the last update of the rate) is non-negative.
C1_LoadsMaximalFeasibleRate ==
    pc = "returned_best" =>
        /\ FeasibleRates # {}
        /\ Val(model).key = FormatRate(SetMax(FeasibleRates))

\* C2: when no rate of the training-history mapping has a non-negative
\* budget, load_best_checkpoint ends in the error and restores nothing.
C2_NoFeasibleRateIsAnError ==
    (calls.load_best_checkpoint = 1 /\ FeasibleRates = {}) =>
        (pc = "value_error" /\ model = None)


\* the target is set and lies below minimal_compression_rate
TargetBelowMinimum ==
    /\ runner.compression_rate_target # None
    /\ Val(runner.compression_rate_target) < cfg.minimal_compression_rate

\* the target is set and lies above maximal_compression_rate
TargetAboveMaximum ==
    /\ runner.compression_rate_target # None
    /\ Val(runner.compression_rate_target) > cfg.maximal_compression_rate

\* C3: once update_target_compression_rate has produced a target below
\* minimal_compression_rate, the next step of run is the infeasibility
\* error: no train_epoch, no reset_training, no write of the controller's
\* rate in between.
C3_InfeasibleTargetRaises ==
    [][ (pc = "check" /\ changed /\ TargetBelowMinimum) =>
            /\ pc' = "infeasible_error"
            /\ calls' = calls
            /\ runner' = runner
            /\ ctrl' = ctrl
            /\ files' = files ]_vars

C3_Witness ==
    /\ pc = "infeasible_error"
    /\ TargetBelowMinimum
    /\ calls.predictor >= 2
    /\ calls.train_epoch >= 1

\* C4: once update_target_compression_rate has produced a target above
\* maximal_compression_rate, the next step of run is the return of the model:
\* no train_epoch, validate, reset_training or controller write follows, and
\* load_best_checkpoint is called only after the loop condition has failed.
C4_MaximalTargetReturns ==
    [][ /\ (pc = "check" /\ changed /\ TargetAboveMaximum) =>
            /\ pc' = "returned_maximal"
            /\ calls' = calls
            /\ runner' = runner
            /\ ctrl' = ctrl
            /\ files' = files
            /\ model' = None
        /\ pc = "returned_maximal" => UNCHANGED vars
        /\ calls'.load_best_checkpoint # calls.load_best_checkpoint =>
            /\ pc = "finalize"
            /\ ~ ( /\ runner.compression_rate_step
                        >= cfg.minimal_compression_rate_step
                   /\ runner.cumulative_epoch_count < cfg.maximal_total_epochs )
      ]_vars

C4_Witness ==
    /\ pc = "returned_maximal"
    /\ TargetAboveMaximum
    /\ calls.load_best_checkpoint = 0
    /\ calls.train_epoch >= 1


\* C5 as stated: a run that has ended has ended in one of the three
\* outcomes: early success, infeasibility error, rollback to the best
\* checkpoint.
C5_ThreeOutcomes ==
    pc \in Terminal =>
        pc \in {"returned_maximal", "infeasible_error", "returned_best"}

\* what holds of the run when it has ended in outcome p
OutcomeOf(p) ==
    CASE p = "precondition_error" ->
            ~cfg.has_original_accuracy /\ calls = NoCalls
      [] p = "type_error" ->
            /\ runner.compression_rate_target = None
            /\ calls.predictor = 0
            /\ dumps_best(runner)
      [] p = "infeasible_error" ->
            changed /\ TargetBelowMinimum /\ calls.load_best_checkpoint = 0
      [] p = "returned_maximal" ->
            changed /\ TargetAboveMaximum /\ calls.load_best_checkpoint = 0
      [] OTHER ->
            /\ calls.load_best_checkpoint = 1
            /\ \/ runner.compression_rate_step < cfg.minimal_compression_rate_step
               \/ runner.cumulative_epoch_count >= cfg.maximal_total_epochs
            /\ CASE p = "returned_best" -> model # None
                 [] p = "value_error" ->
                        model = None /\ possible_checkpoint_rates(runner) = {}
                 [] OTHER ->
                        model = None /\ possible_checkpoint_rates(runner) # {}

\* C5 (amended): every run ends, and it ends in exactly one of: early
\* success (target above the maximum), infeasibility error (target below
\* the minimum), loop exit followed by load_best_checkpoint, which restores
\* a checkpoint or fails (no pair with a non-negative budget; checkpoint
\* never written), the precondition error before any call, or a TypeError
\* out of a train_epoch of the initial phase that has to write a best
\* checkpoint while no target rate is set.
C5_TerminatesInOneOutcome ==
    /\ <>[](pc \in Terminal)
    /\ [](pc \in Terminal => OutcomeOf(pc))

C5_Witness ==
    /\ pc = "returned_best"
    /\ OutcomeOf(pc)
    /\ calls.reset_training >= 2


C6_WitnessStep ==
    /\ pc = "finalize"
    /\ runner.cumulative_epoch_count < cfg.maximal_total_epochs
    /\ runner.compression_rate_step < cfg.minimal_compression_rate_step


\* this step is a train_epoch call; this step is a reset_training call
TrainEpochCalled == calls'.train_epoch = calls.train_epoch + 1
ResetCalled == calls'.reset_training = calls.reset_training + 1

\* at the check that follows update_target_compression_rate: the update gave
\* the target a value other than the rate of the phase before (the rate the
\* controller holds), or its first value
TargetIsNew ==
    /\ changed
    /\ \/ calls.set_compression_rate = 0
       \/ Val(runner.compression_rate_target) # ctrl.compression_rate

\* C7 as stated: every train_epoch call (that returns) adds 1 to both
\* counters, cumulative_epoch_count never decreases, and training_epoch_count
\* is reset to 0 if and only if the target rate has taken a new value.
C7_ResetIffNewTarget ==
    [][ /\ (TrainEpochCalled /\ pc' # "type_error") =>
            /\ runner'.cumulative_epoch_count
                   = runner.cumulative_epoch_count + 1
            /\ runner'.training_epoch_count = runner.training_epoch_count + 1
        /\ runner'.cumulative_epoch_count >= runner.cumulative_epoch_count
        /\ ResetCalled => pc = "check" /\ runner'.training_epoch_count = 0
        /\ pc = "check" => (ResetCalled <=> TargetIsNew)
      ]_vars

\* C7 (amended): a train_epoch call that returns adds 1 to both counters and
\* one that raises leaves them as they are; nothing else changes
\* cumulative_epoch_count; training_epoch_count is reset to 0 exactly when
\* update_target_compression_rate has re-evaluated the target (returned
\* True) and the target lies within the permitted rates, whether or not its
\* value is new.
C7_Counters ==
    [][ /\ TrainEpochCalled =>
            IF pc' = "type_error"
            THEN /\ runner'.cumulative_epoch_count
                        = runner.cumulative_epoch_count
                 /\ runner'.training_epoch_count = runner.training_epoch_count
            ELSE /\ runner'.cumulative_epoch_count
                        = runner.cumulative_epoch_count + 1
                 /\ runner'.training_epoch_count
                        = runner.training_epoch_count + 1
        /\ ~TrainEpochCalled =>
            /\ runner'.cumulative_epoch_count = runner.cumulative_epoch_count
            /\ ResetCalled
               \/ runner'.training_epoch_count = runner.training_epoch_count
        /\ ResetCalled => pc = "check" /\ runner'.training_epoch_count = 0
        /\ pc = "check" =>
            ( ResetCalled <=>
                /\ changed
                /\ ~TargetBelowMinimum
                /\ ~TargetAboveMaximum )
      ]_vars

\* a phase was reset although the re-evaluated target is the old one
C7_Witness ==
    /\ pc = "train"
    /\ changed
    /\ calls.reset_training >= 2
    /\ runner.training_epoch_count = 0
    /\ runner.compression_rate_step = 0
    /\ runner.cumulative_epoch_count >= 2


\* C8: when the history has just been seeded, the initial phase has made
\* exactly initial_training_phase_epochs train_epoch calls at the starting
\* rate and no target has been computed, and the history is the single pair
\* of the starting rate and the budget of the closing validation
\* (its metric minus minimal_tolerable_accuracy).
C8_InitialPhase ==
    /\ pc \in {"start", "initial_training", "seed"} =>
            /\ calls.predictor = 0
            /\ runner.compression_rate_target = None
            /\ ctrl.compression_rate = cfg.compression_rate
    /\ (pc = "loop" /\ runner.compression_rate_target = None) =>
            /\ calls.train_epoch = cfg.initial_training_phase_epochs
            /\ calls.predictor = 0
            /\ calls.update_training_history = 1
            /\ runner._compressed_training_history =
                  << << cfg.compression_rate, Val(runner.accuracy_bugdet) >> >>


\* this step is the update_training_history call of run, with this rate
HistoryCalled == calls'.update_training_history = calls.update_training_history + 1
HistoryRate == IF pc = "seed" THEN ctrl.compression_rate
               ELSE Val(runner.compression_rate_target)

\* C9: after update_training_history(r, m) the mapping read from
\* compressed_training_history maps r to m - minimal_tolerable_accuracy,
\* whatever was recorded for r before, has r as its only new key, and maps
\* every other rate as before.
C9_LastUpdateWins ==
    [][ HistoryCalled =>
          LET before == compressed_training_history(runner)
              after == compressed_training_history(runner')
          IN  /\ DOMAIN after = DOMAIN before \cup {HistoryRate}
              /\ after[HistoryRate] =
                    runner.best_val_metric_value
                        - Val(runner.minimal_tolerable_accuracy)
              /\ \A k \in DOMAIN before \ {HistoryRate} : after[k] = before[k]
      ]_vars

\* a rate was recorded twice with different budgets and another rate is
\* recorded as well
C9_Witness ==
    /\ pc = "update"
    /\ RecordedTwice(runner._compressed_training_history)
    /\ Cardinality(DOMAIN compressed_training_history(runner)) >= 2
    /\ LET h == runner._compressed_training_history
       IN  compressed_training_history(runner)[h[Len(h)][1]] = h[Len(h)][2]


\* C10: reset_training zeroes training_epoch_count, and the first validation
\* after it (the one of the train_epoch that follows the reset) records its
\* metric as best_val_metric_value, for either comparison direction.
C10_FirstValidationAfterResetIsBest ==
    [][ /\ ResetCalled => runner'.training_epoch_count = 0
        /\ (pc = "train" /\ changed /\ TrainEpochCalled) =>
              /\ runner'.current_val_metric_value # None
              /\ runner'.best_val_metric_value
                     = Val(runner'.current_val_metric_value)
      ]_vars



\* this train_epoch call has written the best checkpoint
BestWritten ==
    \E b \in files'.best :
        b.epoch = runner.cumulative_epoch_count /\ b \notin files.best

\* C11: every train_epoch call, of the initial phase and of the search,
\* writes the "last" checkpoint, writes the best checkpoint of the rate if
\* and only if the metric of its validation equals best_val_metric_value
\* (never when it did not validate), and returns normally.
C11_TrainEpochWritesCheckpoints ==
    [][ TrainEpochCalled =>
          /\ files'.last = Some(runner.cumulative_epoch_count)
          /\ BestWritten <=> dumps_best(runner')
          /\ runner'.current_val_metric_value = None => ~BestWritten
          /\ pc' # "type_error"
      ]_vars



\* C12: the first iteration of the search sets the target whatever
\* patience_epochs is; at a later iteration the target is re-evaluated
\* exactly when training_epoch_count >= patience_epochs; training_epoch_count
\* is the number of train_epoch calls of the phase (0 at its reset, +1 per
\* call); so a phase that ends in a re-evaluation has made exactly
\* max(1, patience_epochs) train_epoch calls.
C12_PatiencePhases ==
    [][ /\ pc = "update" =>
            /\ calls.predictor = 0 <=> runner.compression_rate_target = None
            /\ runner.compression_rate_target = None =>
                  changed' /\ runner'.compression_rate_target # None
            /\ runner.compression_rate_target # None =>
                  /\ changed' <=>
                        runner.training_epoch_count >= cfg.patience_epochs
                  /\ changed' <=> calls'.predictor = calls.predictor + 1
                  /\ changed' =>
                        runner.training_epoch_count =
                            IF cfg.patience_epochs > 1
                            THEN cfg.patience_epochs ELSE 1
                  /\ ~changed' =>
                        runner'.compression_rate_target
                            = runner.compression_rate_target
        /\ ResetCalled => runner'.training_epoch_count = 0
        /\ (TrainEpochCalled /\ pc = "train") =>
              runner'.training_epoch_count = runner.training_epoch_count + 1
        /\ (~ResetCalled /\ ~TrainEpochCalled) =>
              runner'.training_epoch_count = runner.training_epoch_count
      ]_vars

\* a phase of two epochs under patience 2 has ended in a re-evaluation
C12_Witness ==
    /\ pc = "check"
    /\ changed
    /\ cfg.patience_epochs = 2
    /\ calls.predictor >= 2
    /\ runner.training_epoch_count = 2
    /\ calls.train_epoch = cfg.initial_training_phase_epochs + 2

\* a phase of one epoch under patience 0 has ended in a re-evaluation
C12_WitnessZero ==
    /\ pc = "check"
    /\ changed
    /\ cfg.patience_epochs = 0
    /\ calls.predictor >= 2
    /\ runner.training_epoch_count = 1



\* the tri-state sign of the current best accuracy budget
BestBudgetSign ==
    Sign(runner.best_val_metric_value - Val(runner.minimal_tolerable_accuracy))

\* was_compression_increased_on_prev_step is set and differs from that sign
SignFlipped ==
    /\ runner.was_compression_increased_on_prev_step # None
    /\ Val(runner.was_compression_increased_on_prev_step) # BestBudgetSign

\* C13: uniform_decrease_compression_step_update multiplies
\* compression_rate_step by step_reduction_factor if
\* was_compression_increased_on_prev_step is set and differs from the sign
\* (-1, 0, +1) of the best accuracy budget, and leaves it as it is otherwise;
\* it changes no other field; it returns the sign times the resulting step;
\* the step does not grow, and a budget of exactly zero gives a delta of zero.
C13_UniformDecrease ==
    [][ pc = "uniform_decrease" =>
          /\ SignFlipped =>
                runner'.compression_rate_step * runner.step_reduction_factor.den
                    = runner.compression_rate_step
                        * runner.step_reduction_factor.num
          /\ ~SignFlipped =>
                runner'.compression_rate_step = runner.compression_rate_step
          /\ runner' = [runner EXCEPT !.compression_rate_step =
                                          runner'.compression_rate_step]
          /\ ret' = Some(BestBudgetSign * runner'.compression_rate_step)
          /\ runner'.compression_rate_step <= runner.compression_rate_step
          /\ BestBudgetSign = 0 => ret' = Some(0)
      ]_vars

\* the sign has flipped from +1 to -1 and the step 16 was reduced by 0.75
C13_Witness ==
    /\ pc = "uniform_returned"
    /\ runner.was_compression_increased_on_prev_step = Some(1)
    /\ BestBudgetSign = -1
    /\ runner.step_reduction_factor = [num |-> 3, den |-> 4]
    /\ runner.compression_rate_step = 12
    /\ ret = Some(-12)

\* a budget of exactly zero after a positive one: the step is reduced and
\* the delta is zero
C13_WitnessZero ==
    /\ pc = "uniform_returned"
    /\ runner.was_compression_increased_on_prev_step = Some(1)
    /\ BestBudgetSign = 0
    /\ runner.compression_rate_step = 40
    /\ ret = Some(0)



\* C14: whatever the training history is (also with entries at rate 0.0 or
\* 1.0), the mapping the curve is built from is the history mapping with the
\* two boundary points written over it: rate 0.0 has maximal_accuracy_drop,
\* rate 1.0 has -10 * maximal_accuracy_drop, every other rate its recorded
\* budget; and the curve takes exactly these two values at 0.0 and 1.0.
C14_BoundaryPoints ==
    \A th \in {training_history(runner, cfg)} :
        /\ DOMAIN th = DOMAIN compressed_training_history(runner)
                            \cup {0, RateScale}
        /\ th[0] = cfg.maximal_accuracy_drop
        /\ th[RateScale] = (-10) * cfg.maximal_accuracy_drop
        /\ \A k \in DOMAIN th \ {0, RateScale} :
                th[k] = compressed_training_history(runner)[k]
        /\ acc_budget_vs_comp_rate_curve(th, 0)
                = [num |-> cfg.maximal_accuracy_drop, den |-> 1]
        /\ acc_budget_vs_comp_rate_curve(th, RateScale)
                = [num |-> (-10) * cfg.maximal_accuracy_drop, den |-> 1]

\* the policy was applied to a history with entries at 0.0 and at 1.0 whose
\* budgets are not those of the boundary points
C14_Witness ==
    /\ pc = "interpolate_returned"
    /\ runner._compressed_training_history = << <<0, 3>>, <<RateScale, 0>> >>
    /\ ret # None



\* the rate the interpolation policy measures its delta from
StepBase ==
    IF runner.compression_rate_target = None
    THEN ctrl.compression_rate
    ELSE Val(runner.compression_rate_target)

\* p is the lowest sampled rate at which the absolute value of the curve is
\* minimal.  The linear curve is evaluated at every sampled rate; of the
\* cubic curve the values at the recorded points are known.
FirstMinimum(th, p) ==
    IF Cardinality(DOMAIN th) < 4
    THEN \E v \in {[z \in rate_interval |-> linear_curve(th, z)]} :
            \A z \in rate_interval :
                IF z < p THEN AbsLess(v[p], v[z]) ELSE AbsLeq(v[p], v[z])
    ELSE \A z \in DOMAIN th \cap rate_interval :
            IF p \in DOMAIN th
            THEN IF z < p THEN Abs(th[p]) < Abs(th[z])
                          ELSE Abs(th[p]) <= Abs(th[z])
            ELSE z < p => th[z] # 0

\* C15: the rate predicted by interpolate_compression_step_update is the
\* lowest of the sampled rates of [0, 1] at which the absolute value of the
\* predicted budget is minimal; the returned delta is that rate minus the
\* controller's rate while no target is set, and minus the target otherwise;
\* compression_rate_step becomes the absolute value of the delta.  After
\* update_target_compression_rate has updated the target, the target is
\* the predicted rate and lies in [0, 1]; when it has not, target and step
\* are as before.
C15_Interpolation ==
    [][ /\ (pc' = "interpolate_returned" \/ (pc' = "target_updated" /\ changed'))
            => /\ ret' # None
               /\ (StepBase + Val(ret')) \in rate_interval
               /\ \A th \in {training_history(runner, cfg)} :
                      FirstMinimum(th, StepBase + Val(ret'))
               /\ runner'.compression_rate_step = Abs(Val(ret'))
               /\ pc' = "interpolate_returned" =>
                      runner' = [runner EXCEPT !.compression_rate_step =
                                                  Abs(Val(ret'))]
               /\ pc' = "target_updated" =>
                      /\ runner'.compression_rate_target
                            = Some(StepBase + Val(ret'))
                      /\ Val(runner'.compression_rate_target) >= 0
                      /\ Val(runner'.compression_rate_target) <= RateScale
        /\ (pc' = "target_updated" /\ ~changed') => runner' = runner
      ]_vars

\* two sampled rates tie (budget 1 at 0.0, -1 at the next sampled rate), the
\* lower one was predicted, and the delta was taken from the target
C15_Witness ==
    /\ pc = "target_updated"
    /\ changed
    /\ cfg.maximal_accuracy_drop = 1
    /\ runner._compressed_training_history = << <<20, -1>> >>
    /\ runner.compression_rate_target = Some(0)
    /\ runner.compression_rate_step = 20 * ((num_curve_pts - 1) \div 2)
    /\ ret = Some(- 20 * ((num_curve_pts - 1) \div 2))

\* the cubic curve was used and the delta was taken from the controller's
\* rate
C15_WitnessCubic ==
    /\ pc = "interpolate_returned"
    /\ Cardinality(DOMAIN training_history(runner, cfg)) = 4
    /\ runner.compression_rate_target = None
    /\ ret # None
    /\ ctrl.compression_rate + Val(ret) \in CubicProbe



\* the controllers the constructor chooses among: the controller, or the
\* children of a composite controller
Candidates ==
    IF isinstance(cfg.compression_controller, CompositeType)
    THEN cfg.compression_controller.child_ctrls
    ELSE <<cfg.compression_controller>>

\* the registry entries whose type controller c is an instance of
RegisteredAs(c) ==
    { j \in DOMAIN cfg.registry : isinstance(c, cfg.registry[j].ctrl_type) }

NoAdaptiveController ==
    \A i \in DOMAIN Candidates : RegisteredAs(Candidates[i]) = {}

\* the first candidate of a registered type, and the algorithm name of the
\* first registry entry that has its type
FirstAdaptive ==
    Candidates[CHOOSE i \in DOMAIN Candidates :
                  /\ RegisteredAs(Candidates[i]) # {}
                  /\ \A k \in DOMAIN Candidates :
                        RegisteredAs(Candidates[k]) # {} => i <= k]
FirstAlgoName ==
    cfg.registry[CHOOSE j \in RegisteredAs(FirstAdaptive) :
                    \A k \in RegisteredAs(FirstAdaptive) : j <= k].algo_name

\* the sections of the configuration for algorithm a, in their order
SectionsOf(a) ==
    IF cfg.nncf_config.compression = None
    THEN << >>
    ELSE SelectSeq(Val(cfg.nncf_config.compression).items,
                   LAMBDA sec : sec.algorithm = a)

C16_WitnessKeyError ==
    /\ pc = "key_error"
    /\ ~NoAdaptiveController
    /\ cfg.nncf_config.compression # None
    /\ runner = None



\* C17: when the model has no original_model_accuracy, the first step of
\* run is the precondition error, and run ends there: no train_epoch, no
\* validation, no checkpoint written, no runner field and no compression
\* rate changed.
C17_PreconditionError ==
    /\ [][ /\ (pc = "start" /\ ~cfg.has_original_accuracy) =>
                /\ pc' = "precondition_error"
                /\ calls' = NoCalls
                /\ runner' = runner
                /\ ctrl' = ctrl
                /\ files' = files
           /\ pc # "precondition_error"
         ]_vars
    /\ [] /\ ~cfg.has_original_accuracy => pc \in {"start", "precondition_error"}
          /\ pc = "precondition_error" =>
                /\ ~cfg.has_original_accuracy
                /\ calls = NoCalls
                /\ runner = NewRunner(cfg)
                /\ ctrl.compression_rate = cfg.compression_rate
                /\ files = [last |-> None, best |-> {}]
                /\ model = None

C17_Witness ==
    /\ pc = "precondition_error"
    /\ ~cfg.has_original_accuracy
    /\ cfg.initial_training_phase_epochs >= 1
    /\ calls.train_epoch = 0
    /\ files.last = None



\* C18: the target moves by the step of the configured policy.  run reads
\* no configuration key that selects a policy, so a run configured with
\* either policy is any run: at every target update, for the sign-based
\* policy as for the interpolation, the target has moved by the delta of
\* that policy and compression_rate_step is the step that policy leaves.
C18_ConfiguredPolicyApplied ==
    [][ (pc = "update" /\ changed') =>
          \A configured \in {"uniform_decrease", "interpolate"} :
              \E predicted \in target_compression_rate(runner, cfg) :
                  \E s \in {compression_step_updaters(runner,
                                ctrl.compression_rate, predicted)[configured]} :
                      /\ Val(runner'.compression_rate_target)
                            = StepBase + s.delta
                      /\ runner'.compression_rate_step
                            = s.runner.compression_rate_step
      ]_vars



\* the target rate of the search epoch with cumulative index e, as the
\* history recorded it at the start of the following iteration
RateOfEpoch(e) ==
    runner._compressed_training_history[
        e - cfg.initial_training_phase_epochs + 2][1]

\* best checkpoint b was written in the phase that is running: the target
\* has been the rate of b at every epoch since b was written
WrittenInThisPhase(b) ==
    \A e \in b.epoch .. (runner.cumulative_epoch_count - 1) :
        RateOfEpoch(e) = b.rate

\* C19: a train_epoch call replaces a best checkpoint only if that
\* checkpoint was written in the same phase: the file name of a phase's best
\* checkpoint, made of its target rate to three decimals, is the name of no
\* best checkpoint written by another phase.
C19_NoCollision ==
    [][ (pc = "train" /\ TrainEpochCalled) =>
          \A b \in files.best :
              b \notin files'.best => WrittenInThisPhase(b)
      ]_vars



\* a is better than b in the configured direction
Better(a, b) == IF cfg.is_higher_metric_better THEN a > b ELSE a < b

\* the best, in the configured direction, of the values of S
BestOf(S) == CHOOSE x \in S : \A y \in S : ~Better(y, x)

\* C20: validate returns the metric of the validation callable and gives
\* best_val_metric_value a new value exactly when the metric is better than
\* it in the configured direction, the new value being the metric;
\* reset_training sets it to the sentinel 0; so at any time
\* best_val_metric_value is the best, in that direction, of 0 and the
\* metrics validated since the last reset_training.
C20_BestOfValidated ==
    /\ [][ /\ calls'.validate = calls.validate + 1 =>
                /\ Len(ret') = Len(ret) + 1
                /\ ret'[Len(ret')] \in ValMetrics
                /\ runner'.best_val_metric_value =
                      IF Better(ret'[Len(ret')], runner.best_val_metric_value)
                      THEN ret'[Len(ret')]
                      ELSE runner.best_val_metric_value
           /\ ResetCalled => runner'.best_val_metric_value = 0
         ]_vars
    /\ [](pc = "validate" =>
            runner.best_val_metric_value
                = BestOf({0} \cup { ret[i] : i \in DOMAIN ret }))

\* lower is better: after a reset, 60 was validated and then -7, which
\* became the best value
C20_Witness ==
    /\ pc = "validate"
    /\ ~cfg.is_higher_metric_better
    /\ calls.reset_training = 1
    /\ ret = <<60, -7>>
    /\ runner.best_val_metric_value = -7

\* higher is better: 99 was validated and then 60, which did not replace it
C20_WitnessHigher ==
    /\ pc = "validate"
    /\ cfg.is_higher_metric_better
    /\ ret = <<99, 60>>
    /\ runner.best_val_metric_value = 99



\* this step is the update_target_compression_rate call of a search
\* iteration that re-evaluates a target set before
TargetReevaluated ==
    /\ pc = "update"
    /\ runner.compression_rate_target # None
    /\ changed'

\* C21: when the target is changed from r to r' in the search, the training
\* history already maps r to the budget of the best validation metric of
\* the phase just finished at r: the mapped budget is that of
\* best_val_metric_value, not yet cleared and not altered by the predictor,
\* and best_val_metric_value is a metric validated in the phase, none of
\* which is better (the metric of the only epoch when the phase had one).
C21_SnapshotBeforeChange ==
    [][ TargetReevaluated =>
          LET h == compressed_training_history(runner)
              r == Val(runner.compression_rate_target)
              last == Val(runner.current_val_metric_value)
          IN  /\ r \in DOMAIN h
              /\ h[r] = runner.best_val_metric_value
                            - Val(runner.minimal_tolerable_accuracy)
              /\ runner.best_val_metric_value \in Metrics
              /\ ~Better(last, runner.best_val_metric_value)
              /\ runner.training_epoch_count = 1 =>
                    runner.best_val_metric_value = last
              /\ runner'._compressed_training_history
                    = runner._compressed_training_history
      ]_vars



\* the permitted rates of the configuration
PermittedRates ==
    cfg.minimal_compression_rate .. cfg.maximal_compression_rate

\* C22: the loop writes the controller's compression_rate only by pushing
\* compression_rate_target, and only when the target lies within
\* [minimal_compression_rate, maximal_compression_rate]; nothing else changes
\* the rate; hence before and after every train_epoch call of the search the
\* controller's compression_rate is the current target.
C22_PushedRateIsTarget ==
    /\ [][ /\ calls'.set_compression_rate = calls.set_compression_rate + 1 =>
                /\ ctrl'.compression_rate = Val(runner'.compression_rate_target)
                /\ runner'.compression_rate_target
                       = runner.compression_rate_target
                /\ ctrl'.compression_rate \in PermittedRates
           /\ calls'.set_compression_rate = calls.set_compression_rate =>
                ctrl'.compression_rate = ctrl.compression_rate
           /\ (pc = "train" /\ TrainEpochCalled) =>
                /\ ctrl'.compression_rate = ctrl.compression_rate
                /\ ctrl'.compression_rate = Val(runner'.compression_rate_target)
         ]_vars
    /\ [](pc = "train" =>
            /\ calls.set_compression_rate >= 1
            /\ ctrl.compression_rate = Val(runner.compression_rate_target)
            /\ ctrl.compression_rate \in PermittedRates)

\* a second epoch of a phase is about to be trained (the target was kept),
\* at a pushed rate other than the starting rate
C22_Witness ==
    /\ pc = "train"
    /\ ~changed
    /\ runner.training_epoch_count = 1
    /\ calls.set_compression_rate >= 1
    /\ ctrl.compression_rate # cfg.compression_rate
    /\ ctrl.compression_rate = Val(runner.compression_rate_target)



\* this step is a disable_scheduler call
DisableCalled == calls'.disable_scheduler = calls.disable_scheduler + 1

\* C23: disable_scheduler is called at most once; it is called by the first
\* update_target_compression_rate of the search, the one that sets the
\* first target, when no rate has been pushed into the controller and no
\* epoch of the search has been trained; it has not been called during the
\* initial phase, and it has been called once in every run that is inside
\* or past an iteration of the search.
C23_SchedulerDisabledOnce ==
    /\ [][ /\ DisableCalled <=>
                /\ pc = "update"
                /\ runner.compression_rate_target = None
           /\ DisableCalled =>
                /\ runner'.compression_rate_target # None
                /\ calls.disable_scheduler = 0
                /\ calls.set_compression_rate = 0
                /\ calls.train_epoch = cfg.initial_training_phase_epochs
         ]_vars
    /\ [](/\ calls.disable_scheduler <= 1
          /\ calls.disable_scheduler = 1 <=> runner.compression_rate_target # None
          /\ pc \in {"start", "initial_training", "seed"} =>
                calls.disable_scheduler = 0
          /\ ( \/ pc \in {"check", "train", "infeasible_error", "returned_maximal"}
               \/ calls.set_compression_rate > 0
               \/ calls.train_epoch > cfg.initial_training_phase_epochs ) =>
                calls.disable_scheduler = 1)

\* after an initial phase of one epoch, the search has re-evaluated its
\* target a second time and the scheduler was disabled once
C23_Witness ==
    /\ pc = "check"
    /\ cfg.initial_training_phase_epochs = 1
    /\ calls.predictor = 2
    /\ calls.set_compression_rate = 1
    /\ calls.disable_scheduler = 1



\* C24: a search iteration that reaches line 134 makes exactly one
\* train_epoch call there and none before; the call validates and returns
\* the metric, whatever validate_every_n_epochs was configured, so it never
\* raises; afterwards accuracy_bugdet is that metric minus
\* minimal_tolerable_accuracy and the next iteration starts.
C24_OneValidatedEpochPerIteration ==
    /\ [][ /\ pc = "train" =>
                /\ TrainEpochCalled
                /\ pc' = "loop"
                /\ calls'.validate = calls.validate + 1
                /\ runner'.current_val_metric_value # None
                /\ Val(runner'.current_val_metric_value) \in Metrics
                /\ runner'.accuracy_bugdet =
                      Some(Val(runner'.current_val_metric_value)
                              - Val(runner.minimal_tolerable_accuracy))
           /\ pc \in {"loop", "update", "check"} =>
                /\ ~TrainEpochCalled
                /\ runner'.accuracy_bugdet = runner.accuracy_bugdet
         ]_vars
    /\ [](pc \in {"loop", "update", "check", "train"} =>
                runner.validate_every_n_epochs = Some(1))

\* configured never to validate, the second epoch of a phase of the search
\* has validated and set accuracy_bugdet
C24_Witness ==
    /\ pc = "loop"
    /\ cfg.validate_every_n_epochs = None
    /\ runner.training_epoch_count = 2
    /\ runner.current_val_metric_value # None
    /\ runner.accuracy_bugdet =
          Some(Val(runner.current_val_metric_value)
                  - Val(runner.minimal_tolerable_accuracy))
    /\ Val(runner.current_val_metric_value) # runner.best_val_metric_value



\* C25: when the loop has been left for load_best_checkpoint, every rate it
\* can select (recorded in the history with a non-negative budget, the
\* seeded starting rate included) has a best checkpoint of its name among
\* the files written, and load_best_checkpoint never fails to find its file.
C25_SelectableRateHasCheckpoint ==
    /\ pc = "finalize" =>
          \A rate \in possible_checkpoint_rates(runner) :
              \E b \in files.best : b.key = FormatRate(rate)
    /\ pc # "checkpoint_not_found"



\* C26: when the loop has been left for load_best_checkpoint after a search,
\* the training history maps the final target to the budget of
\* best_val_metric_value, the best metric of the epochs trained at that
\* target, the last one included.
C26_FinalPhaseRecorded ==
    (pc = "finalize" /\ runner.compression_rate_target # None) =>
        LET h == compressed_training_history(runner)
            r == Val(runner.compression_rate_target)
        IN  /\ r \in DOMAIN h
            /\ h[r] = runner.best_val_metric_value
                          - Val(runner.minimal_tolerable_accuracy)



\* C27: when run has returned the model restored by load_best_checkpoint,
\* the restored checkpoint was saved at an epoch trained at the selected
\* rate, and the metric validated at that epoch is at least
\* minimal_tolerable_accuracy.
C27_RestoredModelIsFeasible ==
    pc = "returned_best" =>
        /\ model # None
        /\ Val(model).rate = SetMax(possible_checkpoint_rates(runner))
        /\ Val(model).metric >= Val(runner.minimal_tolerable_accuracy)



\* the rates of the pairs stored in the runner's history
StoredRates ==
    { runner._compressed_training_history[i][1] :
        i \in DOMAIN runner._compressed_training_history }

\* C28: a call of the predictor leaves the stored history as it is; the
\* stored history changes only by update_training_history appending the pair
\* of the rate it was given; so every stored rate is the starting rate or a
\* target that was within the permitted rates: the boundary rate 1.0 is
\* never stored and 0.0 only as the starting rate, and every rate
\* load_best_checkpoint can select is such a recorded rate.
C28_PredictorKeepsStoredHistory ==
    /\ [][ /\ calls'.predictor = calls.predictor + 1 =>
                runner'._compressed_training_history
                    = runner._compressed_training_history
           /\ IF HistoryCalled
              THEN LET h == runner._compressed_training_history
                       h1 == runner'._compressed_training_history
                   IN  /\ Len(h1) = Len(h) + 1
                       /\ SubSeq(h1, 1, Len(h)) = h
                       /\ h1[Len(h1)][1] = HistoryRate
              ELSE runner'._compressed_training_history
                      = runner._compressed_training_history
         ]_vars
    /\ [](/\ StoredRates \subseteq {cfg.compression_rate} \cup PermittedRates
          /\ RateScale \notin StoredRates
          /\ 0 \in StoredRates => cfg.compression_rate = 0
          /\ possible_checkpoint_rates(runner) \subseteq StoredRates)

\* the predictor has run three times in a run that started above rate 0,
\* and neither boundary rate is stored
C28_Witness ==
    /\ pc = "check"
    /\ calls.predictor = 3
    /\ Len(runner._compressed_training_history) = 3
    /\ 0 \notin StoredRates
    /\ RateScale \notin StoredRates

====
